---- MODULE Spec2Model ----
(***************************************************************************)
(* TetriX: the piece/grid game engine of src/TetriX.py as a state machine. *)
(* Python lists are sequences: the Python index i is the index i + 1 here. *)
(***************************************************************************)
EXTENDS Integers, Sequences, FiniteSets, TLC

SCREEN_WIDTH == 400
SCREEN_HEIGHT == 800
BLOCK_SIZE == 40

GRID_WIDTH == SCREEN_WIDTH \div BLOCK_SIZE
GRID_HEIGHT == SCREEN_HEIGHT \div BLOCK_SIZE

\* SHAPES: the shape table keyed by piece name; PieceTypes is list(SHAPES.keys()).
PieceTypes == <<"I", "O", "T", "S", "Z", "J", "L">>

SHAPES ==
    [I |-> [shape |-> << <<1, 1, 1, 1>> >>, color |-> 1],
     O |-> [shape |-> << <<1, 1>>, <<1, 1>> >>, color |-> 4],
     T |-> [shape |-> << <<0, 1, 0>>, <<1, 1, 1>> >>, color |-> 6],
     S |-> [shape |-> << <<0, 1, 1>>, <<1, 1, 0>> >>, color |-> 5],
     Z |-> [shape |-> << <<1, 1, 0>>, <<0, 1, 1>> >>, color |-> 7],
     J |-> [shape |-> << <<1, 0, 0>>, <<1, 1, 1>> >>, color |-> 2],
     L |-> [shape |-> << <<0, 0, 1>>, <<1, 1, 1>> >>, color |-> 3]]

\* GameState (the enum)
MENU == "MENU"
PLAYING == "PLAYING"
PAUSED == "PAUSED"
GAME_OVER == "GAME_OVER"

\* Python's None for a piece slot (current_piece, hold_piece).
None == [piece_type |-> "None", shape |-> <<>>, color |-> 0, x |-> 0, y |-> 0]

Range(f) == {f[i] : i \in DOMAIN f}

Max(a, b) == IF a >= b THEN a ELSE b

(***************************************************************************)
(* class Tetrimino                                                         *)
(***************************************************************************)

\* Tetrimino.__init__(piece_type): base shape, spawn origin.
Tetrimino(piece_type) ==
    LET shape == SHAPES[piece_type].shape
    IN  [piece_type |-> piece_type,
         shape |-> shape,
         color |-> SHAPES[piece_type].color,
         x |-> GRID_WIDTH \div 2 - Len(shape[1]) \div 2,
         y |-> 0]

\* rotate without the reversal: the transpose, `zip(*self.shape)`.
rotate_without_reversal(shape) ==
    [c \in 1..Len(shape[1]) |-> [r \in 1..Len(shape) |-> shape[r][c]]]

\* shape[::-1]
Reversed(rows) == [i \in 1..Len(rows) |-> rows[Len(rows) + 1 - i]]

\* [list(row) for row in zip(*rows)]: the c-th result collects the c-th entries.
Zip(rows) == [c \in 1..Len(rows[1]) |-> [r \in 1..Len(rows) |-> rows[r][c]]]

\* Tetrimino.rotate, on the shape of the piece
rotate(shape) == Zip(Reversed(shape))

\* The rejection test without the comparison with the board of line 219.
CellBlocked_off_board_only(new_x, new_y, grid) ==
    \/ new_x < 0
    \/ new_x >= GRID_WIDTH
    \/ new_y >= GRID_HEIGHT

\* The rejection test of one occupied cell inside _valid_position, evaluated
\* left to right as Python's `or` / `and` do.
CellBlocked(new_x, new_y, grid) ==
    \/ new_x < 0
    \/ new_x >= GRID_WIDTH
    \/ new_y >= GRID_HEIGHT
    \/ (new_y >= 0 /\ grid[new_y + 1][new_x + 1] # 0)

\* Tetrimino._valid_position(x, y, shape, grid)
_valid_position(x, y, shape, grid) ==
    \A dy \in 0..(Len(shape) - 1) :
        \A dx \in 0..(Len(shape[dy + 1]) - 1) :
            shape[dy + 1][dx + 1] # 0 => ~CellBlocked(x + dx, y + dy, grid)

RECURSIVE GhostLoop(_, _, _, _)
GhostLoop(x, ghost_y, shape, grid) ==
    IF _valid_position(x, ghost_y + 1, shape, grid)
    THEN GhostLoop(x, ghost_y + 1, shape, grid)
    ELSE ghost_y

\* get_ghost_y whose loop tests the row it is at: line 207 as
\* `while self._valid_position(self.x, ghost_y, ...)`.
get_ghost_y_one_past(piece, grid) == GhostLoop(piece.x, piece.y - 1, piece.shape, grid) + 1

\* Tetrimino.get_ghost_y(grid)
get_ghost_y(piece, grid) == GhostLoop(piece.x, piece.y, piece.shape, grid)

(***************************************************************************)
(* class TetrisGame.  The methods are operators on `self`, the record of   *)
(* the object's fields; a method that returns a value yields               *)
(* [self |-> ..., ret |-> ...].  `perm` is the outcome of random.shuffle   *)
(* for the one refill a call can need (a call draws at most 4 pieces).     *)
(* Two fields of `self` are histories, not fields of the object: drawn     *)
(* (the values get_next_piece returned since the last reset_game) and h    *)
(* (what the methods called by the last step were given and returned).     *)
(***************************************************************************)

\* random.shuffle(items): the items in the order given by the permutation perm
shuffle(items, perm) == [i \in 1..Len(items) |-> items[perm[i]]]

\* list.sort(reverse=True) / sorted(..., reverse=True), as an insertion sort
RECURSIVE InsertDesc(_, _)
InsertDesc(sorted, v) ==
    IF sorted = <<>> THEN <<v>>
    ELSE IF v > Head(sorted) THEN <<v>> \o sorted
    ELSE <<Head(sorted)>> \o InsertDesc(Tail(sorted), v)

RECURSIVE sorted_reverse(_)
sorted_reverse(items) ==
    IF items = <<>> THEN <<>>
    ELSE InsertDesc(sorted_reverse(SubSeq(items, 1, Len(items) - 1)), items[Len(items)])

\* TetrisGame.refill_bag
refill_bag(self, perm) ==
    [self EXCEPT !.piece_bag = shuffle(PieceTypes, perm),
                 !.h.refilled = TRUE,
                 !.h.refill_over = @ \o self.piece_bag]

\* get_next_piece that refills a bag down to its last type: line 285 as
\* `if len(self.piece_bag) <= 1`.
get_next_piece_refilling_early(self, perm) ==
    LET s1 == IF Len(self.piece_bag) <= 1 THEN refill_bag(self, perm) ELSE self
        n == Len(s1.piece_bag)
        popped == s1.piece_bag[n]
    IN  [self |-> [s1 EXCEPT !.piece_bag = SubSeq(s1.piece_bag, 1, n - 1),
                             !.drawn = Append(@, popped)],
         ret |-> popped]

\* TetrisGame.get_next_piece; drawn is the history of the values it returned
\* since the last reset_game.
get_next_piece(self, perm) ==
    LET s1 == IF self.piece_bag = <<>> THEN refill_bag(self, perm) ELSE self
        n == Len(s1.piece_bag)
        popped == s1.piece_bag[n]
    IN  [self |-> [s1 EXCEPT !.piece_bag = SubSeq(s1.piece_bag, 1, n - 1),
                             !.drawn = Append(@, popped)],
         ret |-> popped]

RECURSIVE FillNextPieces(_, _)
FillNextPieces(self, perm) ==
    IF Len(self.next_pieces) < 3
    THEN LET d == get_next_piece(self, perm)
         IN  FillNextPieces([d.self EXCEPT !.next_pieces = Append(@, Tetrimino(d.ret))], perm)
    ELSE self

\* TetrisGame.generate_next_pieces
generate_next_pieces(self, perm) ==
    LET s1 == IF self.current_piece = None
              THEN LET d == get_next_piece(self, perm)
                   IN  [d.self EXCEPT !.current_piece = Tetrimino(d.ret)]
              ELSE self
    IN  FillNextPieces(s1, perm)

\* reset_game without line 269: the hold slot of the game before stays.
reset_game_hold_kept(self, perm) ==
    generate_next_pieces(
        [self EXCEPT !.grid = [y \in 1..GRID_HEIGHT |-> [x \in 1..GRID_WIDTH |-> 0]],
                     !.locked_positions = <<>>,
                     !.current_piece = None,
                     !.next_pieces = <<>>,
                     !.score = 0,
                     !.lines_cleared = 0,
                     !.level = 1,
                     !.combo = 0,
                     !.can_hold = TRUE,
                     !.piece_bag = <<>>,
                     !.stats = [t \in Range(PieceTypes) |-> 0],
                     !.total_pieces = 0,
                     !.drawn = <<>>],
        perm)

\* TetrisGame.reset_game
reset_game(self, perm) ==
    generate_next_pieces(
        [self EXCEPT !.grid = [y \in 1..GRID_HEIGHT |-> [x \in 1..GRID_WIDTH |-> 0]],
                     !.locked_positions = <<>>,
                     !.current_piece = None,
                     !.next_pieces = <<>>,
                     !.score = 0,
                     !.lines_cleared = 0,
                     !.level = 1,
                     !.combo = 0,
                     !.hold_piece = None,
                     !.can_hold = TRUE,
                     !.piece_bag = <<>>,
                     !.stats = [t \in Range(PieceTypes) |-> 0],
                     !.total_pieces = 0,
                     !.drawn = <<>>],
        perm)

\* calculate_drop_speed counting the levels from 0: one level late.
calculate_drop_speed_late(self) == Max(50, 500 - Max(0, self.level - 2) * 50)

\* TetrisGame.calculate_drop_speed
calculate_drop_speed(self) == Max(50, 500 - (self.level - 1) * 50)


\* move_piece without the revert of lines 324-327: a rejected attempt leaves
\* the piece where it was tried.
move_piece_no_revert(self, dx, dy, do_rotate) ==
    IF self.current_piece = None \/ self.state # PLAYING
    THEN [self |-> [self EXCEPT !.h.move_called = TRUE, !.h.move_ret = FALSE], ret |-> FALSE]
    ELSE LET moved == [self.current_piece EXCEPT
                          !.shape = IF do_rotate THEN rotate(@) ELSE @,
                          !.x = @ + dx,
                          !.y = @ + dy]
             ok == _valid_position(moved.x, moved.y, moved.shape, self.grid)
         IN  [self |-> [self EXCEPT !.current_piece = moved,
                                    !.h.move_called = TRUE,
                                    !.h.move_ret = ok],
              ret |-> ok]

\* move_piece whose rotation lifts a piece that is below the top by one row:
\* line 310 with `self.current_piece.y -= 1` after the rotation.
move_piece_rotation_lifts(self, dx, dy, do_rotate) ==
    IF self.current_piece = None \/ self.state # PLAYING
    THEN [self |-> [self EXCEPT !.h.move_called = TRUE, !.h.move_ret = FALSE], ret |-> FALSE]
    ELSE LET moved == [self.current_piece EXCEPT
                          !.shape = IF do_rotate THEN rotate(@) ELSE @,
                          !.x = @ + dx,
                          !.y = IF do_rotate /\ @ > 0 THEN @ + dy - 1 ELSE @ + dy]
             ok == _valid_position(moved.x, moved.y, moved.shape, self.grid)
         IN  [self |-> [self EXCEPT !.current_piece = IF ok THEN moved ELSE @,
                                    !.h.move_called = TRUE,
                                    !.h.move_ret = ok],
              ret |-> ok]

\* TetrisGame.move_piece(dx, dy, rotate)
move_piece(self, dx, dy, do_rotate) ==
    IF self.current_piece = None \/ self.state # PLAYING
    THEN [self |-> [self EXCEPT !.h.move_called = TRUE, !.h.move_ret = FALSE], ret |-> FALSE]
    ELSE LET old_shape == self.current_piece.shape
             moved == [self.current_piece EXCEPT
                          !.shape = IF do_rotate THEN rotate(@) ELSE @,
                          !.x = @ + dx,
                          !.y = @ + dy]
         IN  IF ~_valid_position(moved.x, moved.y, moved.shape, self.grid)
             THEN [self |-> [self EXCEPT !.current_piece =
                                [moved EXCEPT !.x = @ - dx,
                                              !.y = @ - dy,
                                              !.shape = IF do_rotate THEN old_shape ELSE @],
                                         !.h.move_called = TRUE,
                                         !.h.move_ret = FALSE],
                   ret |-> FALSE]
             ELSE [self |-> [self EXCEPT !.current_piece = moved,
                                         !.h.move_called = TRUE,
                                         !.h.move_ret = TRUE],
                   ret |-> TRUE]

\* dict[(x, y)] = color on the insertion-ordered dict locked_positions
DictSet(dict, x, y, color) ==
    IF \E i \in 1..Len(dict) : dict[i].x = x /\ dict[i].y = y
    THEN [i \in 1..Len(dict) |->
             IF dict[i].x = x /\ dict[i].y = y THEN [dict[i] EXCEPT !.color = color]
             ELSE dict[i]]
    ELSE Append(dict, [x |-> x, y |-> y, color |-> color])

\* The occupied cells <<x, y>> of a shape in the order of the nested enumerate loops
ShapeCells(shape) ==
    LET cols == Len(shape[1])
        all == [k \in 1..(Len(shape) * cols) |-> <<(k - 1) % cols, (k - 1) \div cols>>]
    IN  SelectSeq(all, LAMBDA c : shape[c[2] + 1][c[1] + 1] # 0)

\* lock_piece, "Add piece to grid": the loop over the cells from the k-th on
RECURSIVE AddPieceToGrid(_, _, _)
AddPieceToGrid(self, cells, k) ==
    IF k > Len(cells) THEN self
    ELSE LET grid_x == self.current_piece.x + cells[k][1]
             grid_y == self.current_piece.y + cells[k][2]
             color == self.current_piece.color
         IN  IF 0 <= grid_y /\ grid_y < GRID_HEIGHT
             THEN AddPieceToGrid(
                      [self EXCEPT !.grid[grid_y + 1][grid_x + 1] = color,
                                   !.locked_positions = DictSet(@, grid_x, grid_y, color)],
                      cells, k + 1)
             ELSE AddPieceToGrid(self, cells, k + 1)

\* del grid[y]; grid.insert(0, [0] * GRID_WIDTH), for each y of ys in turn
RECURSIVE RemoveClearedLines(_, _)
RemoveClearedLines(grid, ys) ==
    IF ys = <<>> THEN grid
    ELSE LET y == Head(ys)
             deleted == SubSeq(grid, 1, y) \o SubSeq(grid, y + 2, Len(grid))
         IN  RemoveClearedLines(<<[x \in 1..GRID_WIDTH |-> 0]>> \o deleted, Tail(ys))

\* clear_lines, "Update locked positions": the dict the loop over the items builds.
\* A key is at the place of its first insertion and has the colour of its last.
UpdateLocked(items, lines_to_clear) ==
    LET lines_below(py) ==
            Cardinality({i \in 1..Len(lines_to_clear) : lines_to_clear[i] > py})
        moved == [k \in 1..Len(items) |->
                     [x |-> items[k].x,
                      y |-> items[k].y + lines_below(items[k].y),
                      color |-> items[k].color]]
        kept == SelectSeq(moved, LAMBDA e : e.y < GRID_HEIGHT)
        SameKey(j, k) == kept[j].x = kept[k].x /\ kept[j].y = kept[k].y
        firsts == SelectSeq([k \in 1..Len(kept) |-> k],
                            LAMBDA k : \A j \in 1..(k - 1) : ~SameKey(j, k))
        LastOf(k) == CHOOSE j \in k..Len(kept) :
                         SameKey(j, k) /\ \A i \in (j + 1)..Len(kept) : ~SameKey(i, k)
    IN  [n \in 1..Len(firsts) |-> [kept[firsts[n]] EXCEPT !.color = kept[LastOf(firsts[n])].color]]

\* TetrisGame.clear_lines
clear_lines(self) ==
    LET lines_to_clear ==
            SelectSeq([i \in 1..GRID_HEIGHT |-> i - 1],
                      LAMBDA y : \A x \in 0..(GRID_WIDTH - 1) : self.grid[y + 1][x + 1] # 0)
        called == [self EXCEPT !.h.clear_called = TRUE,
                               !.h.clear_in = self.grid,
                               !.h.clear_out = self.grid,
                               !.h.clear_ret = Len(lines_to_clear)]
    IN  IF lines_to_clear # <<>>
        THEN LET cleared == RemoveClearedLines(self.grid, sorted_reverse(lines_to_clear))
             IN  [self |-> [called EXCEPT
                               !.grid = cleared,
                               !.h.clear_out = cleared,
                               !.locked_positions = UpdateLocked(@, lines_to_clear)],
                  ret |-> Len(lines_to_clear)]
        ELSE [self |-> called, ret |-> 0]

\* calculate_score whose combo bonus leaves out the level (line 452).
calculate_score_flat_bonus(self, n) ==
    IF n = 0 THEN [self EXCEPT !.combo = 0, !.h.score_called = TRUE, !.h.score_n = n,
                               !.h.score_in = [score |-> self.score,
                                               lines_cleared |-> self.lines_cleared,
                                               level |-> self.level,
                                               combo |-> self.combo]]
    ELSE LET table == <<100, 300, 500, 800>>
             base_score == table[n] * self.level
             combo_bonus == IF self.combo > 0 THEN 50 * self.combo ELSE 0
             s1 == [self EXCEPT !.score = @ + base_score + combo_bonus,
                                !.h.score_called = TRUE,
                                !.h.score_n = n,
                                !.h.score_in = [score |-> self.score,
                                                lines_cleared |-> self.lines_cleared,
                                                level |-> self.level,
                                                combo |-> self.combo],
                                !.lines_cleared = @ + n,
                                !.combo = @ + 1]
             new_level == (s1.lines_cleared \div 10) + 1
         IN  IF new_level > s1.level
             THEN [s1 EXCEPT !.level = new_level,
                             !.drop_speed = Max(50, 500 - (new_level - 1) * 50)]
             ELSE s1

\* line_scores.get(lines_cleared, 0)
line_scores(n) ==
    CASE n = 1 -> 100
      [] n = 2 -> 300
      [] n = 3 -> 500
      [] n = 4 -> 800
      [] OTHER -> 0

\* TetrisGame.calculate_score(lines_cleared)
calculate_score(self, n) ==
    IF n = 0 THEN [self EXCEPT !.combo = 0, !.h.score_called = TRUE, !.h.score_n = n,
                               !.h.score_in = [score |-> self.score,
                                               lines_cleared |-> self.lines_cleared,
                                               level |-> self.level,
                                               combo |-> self.combo]]
    ELSE LET base_score == line_scores(n) * self.level
             combo_bonus == IF self.combo > 0 THEN 50 * self.combo * self.level ELSE 0
             s1 == [self EXCEPT !.score = @ + base_score + combo_bonus,
                                !.h.score_called = TRUE,
                                !.h.score_n = n,
                                !.h.score_in = [score |-> self.score,
                                                lines_cleared |-> self.lines_cleared,
                                                level |-> self.level,
                                                combo |-> self.combo],
                                !.lines_cleared = @ + n,
                                !.combo = @ + 1]
             new_level == (s1.lines_cleared \div 10) + 1
         IN  IF new_level > s1.level
             THEN LET s2 == [s1 EXCEPT !.level = new_level]
                  IN  [s2 EXCEPT !.drop_speed = calculate_drop_speed(s2)]
             ELSE s1

\* spawn_next_piece without the game-over check of lines 366-370.
spawn_next_piece_unchecked(self, perm) ==
    LET s1 == generate_next_pieces(
                  [self EXCEPT !.current_piece = Head(self.next_pieces),
                               !.next_pieces = Tail(@)],
                  perm)
    IN  [s1 EXCEPT !.can_hold = TRUE, !.total_pieces = @ + 1,
                   !.h.spawned = TRUE, !.h.spawn_grid = self.grid]

\* spawn_next_piece taking the newest entry of the queue: line 361 as
\* `self.next_pieces.pop()`.
spawn_next_piece_newest_first(self, perm) ==
    LET s1 == generate_next_pieces(
                  [self EXCEPT !.current_piece = self.next_pieces[Len(self.next_pieces)],
                               !.next_pieces = SubSeq(@, 1, Len(@) - 1)],
                  perm)
        s2 == [s1 EXCEPT !.can_hold = TRUE, !.total_pieces = @ + 1,
                         !.h.spawned = TRUE, !.h.spawn_grid = self.grid]
    IN  IF ~_valid_position(s2.current_piece.x, s2.current_piece.y,
                            s2.current_piece.shape, s2.grid)
        THEN [s2 EXCEPT !.state = GAME_OVER]
        ELSE s2

\* TetrisGame.spawn_next_piece
spawn_next_piece(self, perm) ==
    LET s1 == generate_next_pieces(
                  [self EXCEPT !.current_piece = Head(self.next_pieces),
                               !.next_pieces = Tail(@)],
                  perm)
        s2 == [s1 EXCEPT !.can_hold = TRUE, !.total_pieces = @ + 1,
                         !.h.spawned = TRUE, !.h.spawn_grid = self.grid]
    IN  IF ~_valid_position(s2.current_piece.x, s2.current_piece.y,
                            s2.current_piece.shape, s2.grid)
        THEN [s2 EXCEPT !.state = GAME_OVER]
        ELSE s2

\* TetrisGame.lock_piece
lock_piece(self, perm) ==
    IF self.current_piece = None THEN self
    ELSE LET s1 == AddPieceToGrid(self, ShapeCells(self.current_piece.shape), 1)
             s2 == [s1 EXCEPT !.stats[self.current_piece.piece_type] = @ + 1]
             c == clear_lines(s2)
         IN  spawn_next_piece(calculate_score([c.self EXCEPT !.h.locked = TRUE], c.ret), perm)

\* hard_drop: `while self.move_piece(0, 1): drop_distance += 1`
RECURSIVE DropLoop(_, _)
DropLoop(self, drop_distance) ==
    LET m == move_piece(self, 0, 1, FALSE)
    IN  IF m.ret THEN DropLoop(m.self, drop_distance + 1)
        ELSE [self |-> m.self, ret |-> drop_distance]

\* hard_drop paying one point a row: line 340 as `drop_distance * 1`.
hard_drop_one_point(self, perm) ==
    IF self.current_piece = None THEN self
    ELSE LET d == DropLoop(self, 0)
         IN  lock_piece([d.self EXCEPT !.score = @ + d.ret,
                                       !.h.dropped = TRUE,
                                       !.h.drop_distance = d.ret], perm)

\* TetrisGame.hard_drop
hard_drop(self, perm) ==
    IF self.current_piece = None THEN self
    ELSE LET d == DropLoop(self, 0)
         IN  lock_piece([d.self EXCEPT !.score = @ + d.ret * 2,
                                       !.h.dropped = TRUE,
                                       !.h.drop_distance = d.ret], perm)

\* hold_current_piece without line 357: the flag stays as the spawn or the
\* swap left it.
hold_current_piece_flag_kept(self, perm) ==
    IF ~self.can_hold \/ self.current_piece = None THEN [self EXCEPT !.h.hold = "refused"]
    ELSE IF self.hold_piece = None
    THEN spawn_next_piece(
             [self EXCEPT !.hold_piece = Tetrimino(self.current_piece.piece_type),
                          !.h.hold = "stored"],
             perm)
    ELSE LET temp_type == self.current_piece.piece_type
         IN  [self EXCEPT !.current_piece = Tetrimino(self.hold_piece.piece_type),
                          !.hold_piece = Tetrimino(temp_type),
                          !.h.hold = "swapped"]

\* hold_current_piece whose swap gives the piece from the hold slot the origin
\* of the piece it replaces instead of constructing it anew (line 355).
hold_current_piece_in_place(self, perm) ==
    IF ~self.can_hold \/ self.current_piece = None THEN [self EXCEPT !.h.hold = "refused"]
    ELSE LET s1 == IF self.hold_piece = None
                   THEN spawn_next_piece(
                            [self EXCEPT !.hold_piece = Tetrimino(self.current_piece.piece_type),
                                         !.h.hold = "stored"],
                            perm)
                   ELSE LET temp_type == self.current_piece.piece_type
                        IN  [self EXCEPT !.current_piece =
                                            [Tetrimino(self.hold_piece.piece_type) EXCEPT
                                                !.x = self.current_piece.x,
                                                !.y = self.current_piece.y],
                                         !.hold_piece = Tetrimino(temp_type),
                                         !.h.hold = "swapped"]
         IN  [s1 EXCEPT !.can_hold = FALSE]

\* TetrisGame.hold_current_piece
hold_current_piece(self, perm) ==
    IF ~self.can_hold \/ self.current_piece = None THEN [self EXCEPT !.h.hold = "refused"]
    ELSE LET s1 == IF self.hold_piece = None
                   THEN spawn_next_piece(
                            [self EXCEPT !.hold_piece = Tetrimino(self.current_piece.piece_type),
                                         !.h.hold = "stored"],
                            perm)
                   ELSE LET temp_type == self.current_piece.piece_type
                        IN  [self EXCEPT !.current_piece = Tetrimino(self.hold_piece.piece_type),
                                         !.hold_piece = Tetrimino(temp_type),
                                         !.h.hold = "swapped"]
         IN  [s1 EXCEPT !.can_hold = FALSE]

\* save_high_score without line 847: the list is never cut to 10 entries.
save_high_score_uncut(self) ==
    [self EXCEPT !.high_scores = sorted_reverse(Append(self.high_scores, self.score)),
                 !.h.saved = TRUE,
                 !.h.save_in = self.high_scores,
                 !.h.saves = @ + 1]

\* TetrisGame.save_high_score (the file write cannot fail the call)
save_high_score(self) ==
    LET appended == Append(self.high_scores, self.score)
        sorted == sorted_reverse(appended)
    IN  [self EXCEPT !.high_scores = SubSeq(sorted, 1, IF Len(sorted) < 10 THEN Len(sorted) ELSE 10),
                     !.h.saved = TRUE,
                     !.h.save_in = self.high_scores,
                     !.h.saves = @ + 1]

\* TetrisGame.update; elapsed is current_time - self.drop_time
\* update without the phase test of lines 820-821.
update_in_any_phase(self, elapsed, perm) ==
    IF elapsed > self.drop_speed
    THEN LET m == move_piece(self, 0, 1, FALSE)
         IN  IF ~m.ret THEN lock_piece(m.self, perm) ELSE m.self
    ELSE self

update(self, elapsed, perm) ==
    IF self.state # PLAYING THEN self
    ELSE IF elapsed > self.drop_speed
         THEN LET m == move_piece(self, 0, 1, FALSE)
              IN  IF ~m.ret THEN lock_piece(m.self, perm) ELSE m.self
         ELSE self

\* handle_events whose soft drop locks the piece when the row below is not
\* valid: line 796 as `if ...: score += 1` with `else: self.lock_piece()`.
handle_keydown_soft_drop_locks(self, key, perm) ==
    IF self.state = MENU
    THEN IF key = "K_SPACE"
         THEN [self |-> reset_game([self EXCEPT !.state = PLAYING], perm), ret |-> TRUE]
         ELSE [self |-> self, ret |-> TRUE]
    ELSE IF self.state = PLAYING
    THEN CASE key = "K_LEFT" -> [self |-> move_piece(self, -1, 0, FALSE).self, ret |-> TRUE]
           [] key = "K_RIGHT" -> [self |-> move_piece(self, 1, 0, FALSE).self, ret |-> TRUE]
           [] key = "K_DOWN" ->
                LET m == move_piece(self, 0, 1, FALSE)
                IN  [self |-> IF m.ret THEN [m.self EXCEPT !.score = @ + 1]
                              ELSE lock_piece(m.self, perm),
                     ret |-> TRUE]
           [] key = "K_UP" -> [self |-> move_piece(self, 0, 0, TRUE).self, ret |-> TRUE]
           [] key = "K_SPACE" -> [self |-> hard_drop(self, perm), ret |-> TRUE]
           [] key = "K_c" -> [self |-> hold_current_piece(self, perm), ret |-> TRUE]
           [] key = "K_p" -> [self |-> [self EXCEPT !.state = PAUSED], ret |-> TRUE]
           [] OTHER -> [self |-> self, ret |-> TRUE]
    ELSE IF self.state = PAUSED
    THEN IF key = "K_p"
         THEN [self |-> [self EXCEPT !.state = PLAYING], ret |-> TRUE]
         ELSE [self |-> self, ret |-> TRUE]
    ELSE IF self.state = GAME_OVER
    THEN CASE key = "K_r" -> [self |-> reset_game([self EXCEPT !.state = PLAYING], perm), ret |-> TRUE]
           [] key = "K_q" -> [self |-> self, ret |-> FALSE]
           [] OTHER -> [self |-> self, ret |-> TRUE]
    ELSE [self |-> self, ret |-> TRUE]

\* handle_events whose pause key resumes from any phase but PLAYING: line 806
\* as a plain `else`.
handle_keydown_resume_anywhere(self, key, perm) ==
    IF self.state = MENU /\ key = "K_SPACE"
    THEN [self |-> reset_game([self EXCEPT !.state = PLAYING], perm), ret |-> TRUE]
    ELSE IF self.state = PLAYING
    THEN CASE key = "K_LEFT" -> [self |-> move_piece(self, -1, 0, FALSE).self, ret |-> TRUE]
           [] key = "K_RIGHT" -> [self |-> move_piece(self, 1, 0, FALSE).self, ret |-> TRUE]
           [] key = "K_DOWN" ->
                LET m == move_piece(self, 0, 1, FALSE)
                IN  [self |-> IF m.ret THEN [m.self EXCEPT !.score = @ + 1] ELSE m.self,
                     ret |-> TRUE]
           [] key = "K_UP" -> [self |-> move_piece(self, 0, 0, TRUE).self, ret |-> TRUE]
           [] key = "K_SPACE" -> [self |-> hard_drop(self, perm), ret |-> TRUE]
           [] key = "K_c" -> [self |-> hold_current_piece(self, perm), ret |-> TRUE]
           [] key = "K_p" -> [self |-> [self EXCEPT !.state = PAUSED], ret |-> TRUE]
           [] OTHER -> [self |-> self, ret |-> TRUE]
    ELSE IF key = "K_p"
    THEN [self |-> [self EXCEPT !.state = PLAYING], ret |-> TRUE]
    ELSE IF self.state = GAME_OVER
    THEN CASE key = "K_r" -> [self |-> reset_game([self EXCEPT !.state = PLAYING], perm), ret |-> TRUE]
           [] key = "K_q" -> [self |-> self, ret |-> FALSE]
           [] OTHER -> [self |-> self, ret |-> TRUE]
    ELSE [self |-> self, ret |-> TRUE]

\* TetrisGame.handle_events, the body of the loop for one KEYDOWN event;
\* ret is FALSE where the method returns False.
handle_keydown(self, key, perm) ==
    IF self.state = MENU
    THEN IF key = "K_SPACE"
         THEN [self |-> reset_game([self EXCEPT !.state = PLAYING], perm), ret |-> TRUE]
         ELSE [self |-> self, ret |-> TRUE]
    ELSE IF self.state = PLAYING
    THEN CASE key = "K_LEFT" -> [self |-> move_piece(self, -1, 0, FALSE).self, ret |-> TRUE]
           [] key = "K_RIGHT" -> [self |-> move_piece(self, 1, 0, FALSE).self, ret |-> TRUE]
           [] key = "K_DOWN" ->
                LET m == move_piece(self, 0, 1, FALSE)
                IN  [self |-> IF m.ret THEN [m.self EXCEPT !.score = @ + 1] ELSE m.self,
                     ret |-> TRUE]
           [] key = "K_UP" -> [self |-> move_piece(self, 0, 0, TRUE).self, ret |-> TRUE]
           [] key = "K_SPACE" -> [self |-> hard_drop(self, perm), ret |-> TRUE]
           [] key = "K_c" -> [self |-> hold_current_piece(self, perm), ret |-> TRUE]
           [] key = "K_p" -> [self |-> [self EXCEPT !.state = PAUSED], ret |-> TRUE]
           [] OTHER -> [self |-> self, ret |-> TRUE]
    ELSE IF self.state = PAUSED
    THEN IF key = "K_p"
         THEN [self |-> [self EXCEPT !.state = PLAYING], ret |-> TRUE]
         ELSE [self |-> self, ret |-> TRUE]
    ELSE IF self.state = GAME_OVER
    THEN CASE key = "K_r" -> [self |-> reset_game([self EXCEPT !.state = PLAYING], perm), ret |-> TRUE]
           [] key = "K_q" -> [self |-> self, ret |-> FALSE]
           [] OTHER -> [self |-> self, ret |-> TRUE]
    ELSE [self |-> self, ret |-> TRUE]

(***************************************************************************)
(* The program as a state machine: TetrisGame.run.                         *)
(***************************************************************************)

VARIABLES
    state, grid, locked_positions, current_piece, next_pieces, score,
    lines_cleared, level, combo, hold_piece, can_hold, piece_bag, stats,
    total_pieces, drop_speed, high_scores,   \* the fields of the TetrisGame object
    running, pc,                             \* run(): its local and its position
    drawn, h,                                \* histories (see above)
    script, free                             \* the inputs taken so far

fields == <<state, grid, locked_positions, current_piece, next_pieces, score,
            lines_cleared, level, combo, hold_piece, can_hold, piece_bag, stats,
            total_pieces, drop_speed, high_scores>>

vars == <<fields, running, pc, drawn, h, script, free>>

\* The keys handle_events tells apart, and one it ignores everywhere.
Keys == {"K_SPACE", "K_LEFT", "K_RIGHT", "K_DOWN", "K_UP", "K_c", "K_p", "K_r", "K_q", "K_x"}

\* What update() can read as current_time - drop_time: nothing elapsed, more
\* than the interval of level 2 but not of level 1, more than any interval.
ElapsedValues == {0, 475, 501}

\* The most inputs a run takes that are not the next input of the script.
MaxFree == 2

IdentityPerm == <<1, 2, 3, 4, 5, 6, 7>>

\* The history of a step that has called nothing yet; saves counts the calls
\* of save_high_score since the phase last became GAME_OVER.
NoCalls(input, elapsed) ==
    [input |-> input, elapsed |-> elapsed,
     move_called |-> FALSE, move_ret |-> FALSE,
     locked |-> FALSE,
     clear_called |-> FALSE, clear_in |-> <<>>, clear_out |-> <<>>, clear_ret |-> 0,
     score_called |-> FALSE, score_n |-> 0,
     score_in |-> [score |-> 0, lines_cleared |-> 0, level |-> 0, combo |-> 0],
     spawned |-> FALSE, spawn_grid |-> <<>>, hold |-> "",
     dropped |-> FALSE, drop_distance |-> 0,
     saved |-> FALSE, save_in |-> <<>>, saves |-> 0,
     rotate_times |-> 0, rotate_in |-> <<>>, rotate_ret |-> <<>>,
     refilled |-> FALSE, refill_over |-> <<>>,
     ghost_called |-> FALSE, ghost_ret |-> 0,
     valid_called |-> FALSE, valid_in |-> [x |-> 0, y |-> 0, shape |-> <<>>], valid_ret |-> FALSE]

\* The object as the record the methods work on, at the start of a step.
Self(input, elapsed) ==
    [state |-> state, grid |-> grid, locked_positions |-> locked_positions,
     current_piece |-> current_piece, next_pieces |-> next_pieces, score |-> score,
     lines_cleared |-> lines_cleared, level |-> level, combo |-> combo,
     hold_piece |-> hold_piece, can_hold |-> can_hold, piece_bag |-> piece_bag,
     stats |-> stats, total_pieces |-> total_pieces, drop_speed |-> drop_speed,
     high_scores |-> high_scores, drawn |-> drawn,
     h |-> [NoCalls(input, elapsed) EXCEPT !.saves = IF state = GAME_OVER THEN h.saves ELSE 0]]

\* The object after a step.
Commit(self) ==
    /\ state' = self.state
    /\ grid' = self.grid
    /\ locked_positions' = self.locked_positions
    /\ current_piece' = self.current_piece
    /\ next_pieces' = self.next_pieces
    /\ score' = self.score
    /\ lines_cleared' = self.lines_cleared
    /\ level' = self.level
    /\ combo' = self.combo
    /\ hold_piece' = self.hold_piece
    /\ can_hold' = self.can_hold
    /\ piece_bag' = self.piece_bag
    /\ stats' = self.stats
    /\ total_pieces' = self.total_pieces
    /\ drop_speed' = self.drop_speed
    /\ high_scores' = self.high_scores
    /\ drawn' = self.drawn
    /\ h' = self.h

\* The inputs of the scripted run: a key (KEYDOWN), the time update() finds elapsed
\* (handle_events has returned), or a QUIT event.
K(key) == [kind |-> "key", key |-> key, elapsed |-> 0]
U(elapsed) == [kind |-> "update", key |-> "", elapsed |-> elapsed]
Q == [kind |-> "quit", key |-> "", elapsed |-> 0]

\* The scripted run: a game that clears four rows at once, reaches level 2 and tops
\* out, a second game that ends on a hold, a third in which a hold swaps in a
\* piece that does not fit at the spawn origin and is locked there, a fourth in
\* which a lock meets four full rows and the next lock five, and a QUIT.
Demo ==
    <<K("K_x"), U(501), K("K_SPACE"), U(0), K("K_p"), K("K_LEFT"), K("K_SPACE"), K("K_c"),
      U(501), K("K_p"), K("K_DOWN"), U(475), U(501), K("K_x"), K("K_LEFT"), K("K_LEFT"),
      K("K_LEFT"), K("K_SPACE"), U(0), K("K_LEFT"), K("K_LEFT"), K("K_LEFT"), K("K_LEFT"),
      K("K_LEFT"), K("K_SPACE"), U(0), K("K_DOWN"), K("K_DOWN"), K("K_DOWN"), U(0),
      K("K_DOWN"), K("K_DOWN"), K("K_DOWN"), U(0), K("K_DOWN"), K("K_DOWN"), K("K_DOWN"),
      U(0), K("K_DOWN"), K("K_DOWN"), K("K_DOWN"), U(0), K("K_DOWN"), K("K_DOWN"),
      K("K_DOWN"), U(0), K("K_DOWN"), K("K_DOWN"), K("K_DOWN"), U(0), K("K_DOWN"), U(501),
      K("K_LEFT"), K("K_SPACE"), U(0), K("K_RIGHT"), K("K_RIGHT"), K("K_SPACE"), U(0),
      K("K_UP"), K("K_UP"), K("K_RIGHT"), K("K_RIGHT"), K("K_SPACE"), U(0), K("K_UP"),
      K("K_UP"), K("K_LEFT"), K("K_SPACE"), U(0), K("K_UP"), K("K_UP"), K("K_UP"),
      K("K_LEFT"), K("K_LEFT"), K("K_LEFT"), K("K_SPACE"), U(0), K("K_RIGHT"),
      K("K_RIGHT"), K("K_SPACE"), U(0), K("K_UP"), K("K_LEFT"), K("K_LEFT"), K("K_LEFT"),
      K("K_LEFT"), K("K_SPACE"), U(0), K("K_UP"), K("K_RIGHT"), K("K_RIGHT"), K("K_RIGHT"),
      K("K_RIGHT"), K("K_RIGHT"), K("K_RIGHT"), K("K_RIGHT"), K("K_UP"), K("K_SPACE"),
      U(0), K("K_RIGHT"), K("K_RIGHT"), K("K_SPACE"), U(0), K("K_UP"), K("K_UP"),
      K("K_RIGHT"), K("K_RIGHT"), K("K_RIGHT"), K("K_SPACE"), U(0), K("K_RIGHT"),
      K("K_SPACE"), U(0), K("K_LEFT"), K("K_SPACE"), U(0), K("K_UP"), K("K_UP"),
      K("K_LEFT"), K("K_LEFT"), K("K_LEFT"), K("K_LEFT"), K("K_SPACE"), U(0), K("K_LEFT"),
      K("K_LEFT"), K("K_LEFT"), K("K_LEFT"), K("K_SPACE"), U(0), K("K_SPACE"), U(0),
      K("K_RIGHT"), K("K_RIGHT"), K("K_RIGHT"), K("K_SPACE"), U(0), K("K_UP"), K("K_LEFT"),
      K("K_LEFT"), K("K_LEFT"), K("K_LEFT"), K("K_SPACE"), U(0), K("K_c"), K("K_c"),
      K("K_SPACE"), U(0), K("K_c"), K("K_UP"), K("K_SPACE"), U(475), K("K_c"),
      K("K_SPACE"), U(0), K("K_SPACE"), U(0), K("K_SPACE"), U(0), K("K_c"), K("K_SPACE"),
      U(0), K("K_SPACE"), U(0), K("K_SPACE"), U(0), K("K_c"), K("K_SPACE"), U(0),
      K("K_SPACE"), U(0), K("K_SPACE"), U(0), K("K_LEFT"), K("K_SPACE"), K("K_c"), U(501),
      U(0), K("K_p"), U(475), K("K_r"), U(475), U(0), K("K_UP"), K("K_SPACE"), U(0),
      K("K_SPACE"), U(0), K("K_SPACE"), U(0), K("K_SPACE"), U(0), K("K_SPACE"), U(0),
      K("K_SPACE"), U(0), K("K_SPACE"), U(0), K("K_SPACE"), U(0), K("K_SPACE"), U(0),
      K("K_SPACE"), U(0), K("K_SPACE"), U(0), K("K_c"), U(0), K("K_r"), K("K_c"), U(501),
      K("K_RIGHT"), K("K_SPACE"), U(0), K("K_SPACE"), U(0), K("K_SPACE"), U(0),
      K("K_SPACE"), U(0), K("K_SPACE"), U(0), K("K_SPACE"), U(0), K("K_SPACE"), U(0),
      K("K_SPACE"), U(0), K("K_SPACE"), U(0), K("K_SPACE"), U(0), K("K_SPACE"), U(0),
      K("K_SPACE"), U(0), K("K_c"), U(0), K("K_p"), K("K_p"), K("K_LEFT"), K("K_SPACE"),
      U(0), U(0), K("K_r"), K("K_UP"), K("K_UP"), K("K_UP"), K("K_RIGHT"), K("K_RIGHT"),
      K("K_RIGHT"), K("K_SPACE"), K("K_RIGHT"), K("K_SPACE"), K("K_LEFT"), K("K_LEFT"),
      K("K_SPACE"), K("K_UP"), K("K_UP"), K("K_LEFT"), K("K_LEFT"), K("K_LEFT"),
      K("K_LEFT"), K("K_SPACE"), K("K_LEFT"), K("K_LEFT"), K("K_SPACE"), K("K_UP"),
      K("K_UP"), K("K_SPACE"), U(0), K("K_LEFT"), K("K_LEFT"), K("K_LEFT"), K("K_LEFT"),
      K("K_SPACE"), K("K_LEFT"), K("K_SPACE"), K("K_UP"), K("K_RIGHT"), K("K_RIGHT"),
      K("K_SPACE"), K("K_UP"), K("K_UP"), K("K_UP"), K("K_RIGHT"), K("K_RIGHT"),
      K("K_RIGHT"), K("K_SPACE"), K("K_UP"), K("K_UP"), K("K_RIGHT"), K("K_SPACE"),
      K("K_LEFT"), K("K_SPACE"), U(0), K("K_LEFT"), K("K_LEFT"), K("K_LEFT"), K("K_LEFT"),
      K("K_SPACE"), K("K_LEFT"), K("K_LEFT"), K("K_LEFT"), K("K_LEFT"), K("K_SPACE"),
      K("K_LEFT"), K("K_LEFT"), K("K_LEFT"), K("K_LEFT"), K("K_SPACE"), K("K_LEFT"),
      K("K_LEFT"), K("K_SPACE"), K("K_LEFT"), K("K_LEFT"), K("K_SPACE"), K("K_UP"),
      K("K_UP"), K("K_UP"), K("K_SPACE"), U(0), K("K_UP"), K("K_RIGHT"), K("K_RIGHT"),
      K("K_SPACE"), K("K_UP"), K("K_UP"), K("K_UP"), K("K_RIGHT"), K("K_RIGHT"),
      K("K_RIGHT"), K("K_SPACE"), U(0), K("K_UP"), K("K_RIGHT"), K("K_RIGHT"),
      K("K_RIGHT"), K("K_RIGHT"), K("K_RIGHT"), K("K_RIGHT"), K("K_SPACE"), U(0),
      K("K_UP"), K("K_RIGHT"), K("K_RIGHT"), K("K_RIGHT"), K("K_RIGHT"), K("K_RIGHT"),
      K("K_RIGHT"), K("K_SPACE"), U(0), K("K_SPACE"), U(0), K("K_SPACE"), U(0), Q, U(501)>>

\* The outcome of random.shuffle in the steps of the script that refill the bag.
ScriptedShuffle(i) ==
    CASE i = 3 -> <<7, 6, 5, 4, 3, 2, 1>>
      [] i = 54 -> <<2, 6, 4, 1, 5, 3, 7>>
      [] i = 99 -> <<5, 3, 7, 1, 4, 6, 2>>
      [] i = 132 -> <<1, 2, 5, 6, 4, 7, 3>>
      [] i = 157 -> <<1, 2, 5, 6, 4, 7, 3>>
      [] i = 173 -> <<1, 2, 5, 6, 4, 7, 3>>
      [] i = 182 -> <<1, 2, 5, 6, 4, 7, 3>>
      [] i = 192 -> <<1, 2, 5, 6, 4, 7, 3>>
      [] i = 206 -> <<1, 2, 5, 6, 4, 7, 3>>
      [] i = 210 -> <<1, 2, 5, 6, 4, 7, 3>>
      [] i = 218 -> <<1, 2, 5, 6, 4, 7, 3>>
      [] i = 232 -> <<1, 2, 5, 6, 4, 7, 3>>
      [] i = 246 -> <<2, 3, 5, 7, 1, 4, 6>>
      [] i = 265 -> <<5, 6, 2, 7, 3, 4, 1>>
      [] i = 294 -> <<1, 3, 4, 7, 5, 6, 2>>
      [] i = 322 -> <<7, 6, 5, 4, 3, 2, 1>>
      [] OTHER -> IdentityPerm

\* The outcomes of random.shuffle that an input outside the script can meet.
Shuffles == {IdentityPerm, <<7, 6, 5, 4, 3, 2, 1>>} \cup {ScriptedShuffle(i) : i \in 1..Len(Demo)}

\* An input is the next one of the script, with the shuffle the script has for
\* it, or, while the run has taken fewer than MaxFree such inputs, any input with
\* any shuffle (a shuffle is drawn only where the step can refill the bag).
Scripted(input) ==
    /\ free = 0
    /\ script < Len(Demo)
    /\ Demo[script + 1] = input
    /\ script' = script + 1
    /\ free' = free

Unscripted ==
    /\ free < MaxFree
    /\ free' = free + 1
    /\ script' = script

FreeShuffles ==
    IF piece_bag = <<>> \/ state \in {MENU, GAME_OVER} THEN Shuffles ELSE {IdentityPerm}

\* TetrisGame.__init__ followed by the first line of run()
Init ==
    \E perm \in Shuffles :
        LET blank == [state |-> MENU, grid |-> <<>>, locked_positions |-> <<>>,
                      current_piece |-> None, next_pieces |-> <<>>, score |-> 0,
                      lines_cleared |-> 0, level |-> 0, combo |-> 0,
                      hold_piece |-> None, can_hold |-> FALSE, piece_bag |-> <<>>,
                      stats |-> <<>>, total_pieces |-> 0, drop_speed |-> 0,
                      high_scores |-> <<>>, drawn |-> <<>>, h |-> NoCalls("init", 0)]
            made == [reset_game(blank, perm) EXCEPT !.drop_speed = 500,
                                                    !.total_pieces = 0,
                                                    !.high_scores = <<>>]
        IN  /\ state = made.state
            /\ grid = made.grid
            /\ locked_positions = made.locked_positions
            /\ current_piece = made.current_piece
            /\ next_pieces = made.next_pieces
            /\ score = made.score
            /\ lines_cleared = made.lines_cleared
            /\ level = made.level
            /\ combo = made.combo
            /\ hold_piece = made.hold_piece
            /\ can_hold = made.can_hold
            /\ piece_bag = made.piece_bag
            /\ stats = made.stats
            /\ total_pieces = made.total_pieces
            /\ drop_speed = made.drop_speed
            /\ high_scores = made.high_scores
            /\ drawn = made.drawn
            /\ h = made.h
            /\ running = TRUE
            /\ pc = "events"
            /\ script = 0
            /\ free = 0

\* handle_events meets a KEYDOWN event.
KeyDown ==
    /\ pc = "events"
    /\ running
    /\ \E key \in Keys :
           LET input == [kind |-> "key", key |-> key, elapsed |-> 0]
               Do(perm) == LET r == handle_keydown(Self(key, 0), key, perm)
                           IN  Commit(r.self) /\ running' = r.ret
           IN  \/ Scripted(input) /\ Do(ScriptedShuffle(script + 1))
               \/ Unscripted /\ \E perm \in FreeShuffles : Do(perm)
    /\ pc' = pc

\* handle_events meets a QUIT event and returns False.
QuitEvent ==
    /\ pc = "events"
    /\ running
    /\ LET input == [kind |-> "quit", key |-> "", elapsed |-> 0]
       IN  Scripted(input) \/ Unscripted
    /\ Commit(Self("QUIT", 0))
    /\ running' = FALSE
    /\ pc' = pc

\* handle_events returns (no event is left, or it returned False) and run()
\* calls update().
Update ==
    /\ pc = "events"
    /\ \E elapsed \in ElapsedValues :
           LET input == [kind |-> "update", key |-> "", elapsed |-> elapsed]
               Do(perm) == Commit(update(Self("update", elapsed), elapsed, perm))
           IN  \/ Scripted(input) /\ Do(ScriptedShuffle(script + 1))
               \/ Unscripted /\ \E perm \in FreeShuffles : Do(perm)
    /\ pc' = "draw"
    /\ running' = running

\* draw_grid, "Draw ghost piece": the call of get_ghost_y
draw_grid(self) ==
    IF self.current_piece # None /\ self.state = PLAYING
    THEN [self EXCEPT !.h.ghost_called = TRUE,
                      !.h.ghost_ret = get_ghost_y(self.current_piece, self.grid)]
    ELSE self

\* run(), "Draw everything": the menu, or the grid and, in GAME_OVER, the
\* call of save_high_score
drawing(self) ==
    LET shown == IF self.state = MENU THEN self ELSE draw_grid(self)
    IN  IF self.state = GAME_OVER THEN save_high_score(shown) ELSE shown

\* The rest of the loop body of run(): the drawing, with save_high_score in GAME_OVER.
Draw ==
    /\ pc = "draw"
    /\ Commit(drawing(Self("draw", 0)))
    /\ pc' = IF running THEN "events" ELSE "done"
    /\ UNCHANGED <<running, script, free>>

Next == KeyDown \/ QuitEvent \/ Update \/ Draw

Spec == Init /\ [][Next]_vars

----------------------------------------------------------------------------
\* The loop with a second caller of the engine: between the steps of run(),
\* while the phase is not PLAYING, move_piece, hard_drop, hold_current_piece
\* and update are called directly on the object.  A direct call counts as an
\* input outside the script.

DirectCall(input, result) ==
    /\ pc = "events"
    /\ state # PLAYING
    /\ Unscripted
    /\ Commit(result)
    /\ UNCHANGED <<running, pc>>

CallMovePiece ==
    \E dx \in {0 - 1, 0, 1} : \E dy \in {0, 1} : \E do_rotate \in BOOLEAN :
        DirectCall("move_piece", move_piece(Self("move_piece", 0), dx, dy, do_rotate).self)

CallHardDrop ==
    \E perm \in FreeShuffles :
        DirectCall("hard_drop", hard_drop(Self("hard_drop", 0), perm))

CallHoldCurrentPiece ==
    \E perm \in FreeShuffles :
        DirectCall("hold_current_piece", hold_current_piece(Self("hold_current_piece", 0), perm))

CallUpdate ==
    \E elapsed \in ElapsedValues : \E perm \in FreeShuffles :
        DirectCall("update", update(Self("direct update", elapsed), elapsed, perm))

NextDirect ==
    \/ Next
    \/ CallMovePiece
    \/ CallHardDrop
    \/ CallHoldCurrentPiece
    \/ CallUpdate

SpecDirect == Init /\ [][NextDirect]_vars

----------------------------------------------------------------------------
\* The scoring methods called directly on a constructed object: calculate_score
\* with every line count a lock can pass, at every level up to the one that
\* MaxLines lines give, and reset_game between games.

\* The most lines one game of the direct calls clears.
MaxLines == 21

CallCalculateScore ==
    /\ \E n \in 0..4 :
           /\ lines_cleared + n <= MaxLines
           /\ Commit(calculate_score(Self("calculate_score", 0), n))
    /\ UNCHANGED <<running, pc, script, free>>

CallResetGame ==
    /\ \E perm \in {IdentityPerm} : Commit(reset_game(Self("reset_game", 0), perm))
    /\ UNCHANGED <<running, pc, script, free>>

NextScore == CallCalculateScore \/ CallResetGame

SpecScore == Init /\ [][NextScore]_vars

----------------------------------------------------------------------------
\* Tetrimino._valid_position called directly, once on each board: every
\* rotation of every shape at every origin around the board, on boards with
\* cells set at the corners and inside.

\* The four rotations of the seven shapes.
Rotations(shape) == {shape, rotate(shape), rotate(rotate(shape)), rotate(rotate(rotate(shape)))}

AllShapes == UNION {Rotations(SHAPES[p].shape) : p \in Range(PieceTypes)}

\* Origins from where a shape lies wholly left of or above the board to where
\* it lies wholly right of or below it.
Origins == ((0 - 4)..(GRID_WIDTH + 1)) \X ((0 - 4)..(GRID_HEIGHT + 1))

\* The cells <<column, row>> that the boards of the direct calls may hold.
ProbeCells == {<<0, 0>>, <<4, 1>>, <<5, GRID_HEIGHT - 2>>, <<GRID_WIDTH - 1, GRID_HEIGHT - 1>>}

BoardWith(cells) ==
    [y \in 1..GRID_HEIGHT |-> [x \in 1..GRID_WIDTH |-> IF <<x - 1, y - 1>> \in cells THEN 1 ELSE 0]]

InitValid ==
    \E cells \in SUBSET ProbeCells :
        /\ grid = BoardWith(cells)
        /\ state = PLAYING
        /\ locked_positions = <<>>
        /\ current_piece = Tetrimino("T")
        /\ next_pieces = <<>>
        /\ score = 0
        /\ lines_cleared = 0
        /\ level = 1
        /\ combo = 0
        /\ hold_piece = None
        /\ can_hold = TRUE
        /\ piece_bag = <<>>
        /\ stats = [p \in Range(PieceTypes) |-> 0]
        /\ total_pieces = 0
        /\ drop_speed = 500
        /\ high_scores = <<>>
        /\ drawn = <<>>
        /\ h = NoCalls("init", 0)
        /\ running = TRUE
        /\ pc = "events"
        /\ script = 0
        /\ free = 0

CallValidPosition ==
    /\ ~h.valid_called
    /\ \E shape \in AllShapes : \E o \in Origins :
           h' = [NoCalls("_valid_position", 0) EXCEPT
                    !.valid_called = TRUE,
                    !.valid_in = [x |-> o[1], y |-> o[2], shape |-> shape],
                    !.valid_ret = _valid_position(o[1], o[2], shape, grid)]
    /\ UNCHANGED <<fields, running, pc, drawn, script, free>>

NextValid == CallValidPosition

SpecValid == InitValid /\ [][NextValid]_vars

----------------------------------------------------------------------------
\* Tetrimino.rotate called directly on a piece of any type in any of its
\* rotations, in any column, up to four times in a row, each call on the shape
\* the call before returned; the method assigns nothing to the piece.

InitRotate ==
    \E p \in Range(PieceTypes) : \E shape \in Rotations(SHAPES[p].shape) : \E x \in 0..(GRID_WIDTH - 1) :
        /\ current_piece = [Tetrimino(p) EXCEPT !.shape = shape, !.x = x]
        /\ grid = [y \in 1..GRID_HEIGHT |-> [c \in 1..GRID_WIDTH |-> 0]]
        /\ state = PLAYING
        /\ locked_positions = <<>>
        /\ next_pieces = <<>>
        /\ score = 0
        /\ lines_cleared = 0
        /\ level = 1
        /\ combo = 0
        /\ hold_piece = None
        /\ can_hold = TRUE
        /\ piece_bag = <<>>
        /\ stats = [t \in Range(PieceTypes) |-> 0]
        /\ total_pieces = 0
        /\ drop_speed = 500
        /\ high_scores = <<>>
        /\ drawn = <<>>
        /\ h = NoCalls("init", 0)
        /\ running = TRUE
        /\ pc = "events"
        /\ script = 0
        /\ free = 0

CallRotate ==
    /\ h.rotate_times < 4
    /\ LET arg == IF h.rotate_times = 0 THEN current_piece.shape ELSE h.rotate_ret
       IN  h' = [NoCalls("rotate", 0) EXCEPT
                    !.rotate_times = h.rotate_times + 1,
                    !.rotate_in = arg,
                    !.rotate_ret = rotate(arg)]
    /\ UNCHANGED <<fields, running, pc, drawn, script, free>>

NextRotate == CallRotate

SpecRotate == InitRotate /\ [][NextRotate]_vars

----------------------------------------------------------------------------
\* save_high_score called directly, again and again, on an object whose list
\* load_high_scores read from a file (any JSON list: empty, unsorted, longer
\* than 10) and whose game ended with one of a few scores.

\* The most calls of save_high_score on one object.
MaxSaves == 12

LoadedLists ==
    {<<>>,
     <<500>>,
     <<100, 800, 300>>,
     <<900, 900, 900, 900, 900, 900, 900, 900, 900, 900>>,
     <<1200, 1100, 1000, 900, 800, 700, 600, 500, 400, 300>>,
     <<50, 1200, 1100, 1000, 900, 800, 700, 600, 500, 400, 300, 2000>>}

FinalScores == {0, 300, 800, 1000, 2563}

InitHighScores ==
    \E loaded \in LoadedLists : \E final \in FinalScores :
        /\ high_scores = loaded
        /\ score = final
        /\ state = GAME_OVER
        /\ grid = [y \in 1..GRID_HEIGHT |-> [c \in 1..GRID_WIDTH |-> 0]]
        /\ locked_positions = <<>>
        /\ current_piece = Tetrimino("T")
        /\ next_pieces = <<>>
        /\ lines_cleared = 0
        /\ level = 1
        /\ combo = 0
        /\ hold_piece = None
        /\ can_hold = TRUE
        /\ piece_bag = <<>>
        /\ stats = [t \in Range(PieceTypes) |-> 0]
        /\ total_pieces = 0
        /\ drop_speed = 500
        /\ drawn = <<>>
        /\ h = NoCalls("init", 0)
        /\ running = TRUE
        /\ pc = "draw"
        /\ script = 0
        /\ free = 0

CallSaveHighScore ==
    /\ h.saves < MaxSaves
    /\ Commit(save_high_score(Self("save_high_score", 0)))
    /\ UNCHANGED <<running, pc, script, free>>

NextHighScores == CallSaveHighScore

SpecHighScores == InitHighScores /\ [][NextHighScores]_vars

----------------------------------------------------------------------------
\* The loop with a player who never stops: the run follows the script up to one
\* of the frames of LiveStarts and from there takes any keys and frames, in any
\* number, until a piece is locked or the game is over.  Of a step's history
\* only `locked` is kept.

\* The frames of the script the player takes over at: the first frame of a
\* game (an empty board and an empty hold slot), and the frames before and
\* after the hold that swaps a piece onto a stack that reaches the top.
LiveStarts == {4, 237, 239}

FollowScript == free = 0 /\ Next /\ free' = 0

LiveCommit(self) ==
    Commit([self EXCEPT !.h = [NoCalls("", 0) EXCEPT !.locked = self.h.locked]])

LiveStart ==
    /\ free = 0
    /\ script \in LiveStarts
    /\ pc = "events"
    /\ running
    /\ state = PLAYING
    /\ free' = 1
    /\ LiveCommit(Self("", 0))
    /\ UNCHANGED <<running, pc, script>>

LiveOn == free = 1 /\ ~h.locked /\ state \in {PLAYING, PAUSED}

\* handle_events meets the KEYDOWN event of a key.
Press(key) ==
    /\ LiveOn
    /\ \E perm \in FreeShuffles :
           LET r == handle_keydown(Self(key, 0), key, perm)
           IN  LiveCommit(r.self) /\ running' = r.ret
    /\ UNCHANGED <<pc, script, free>>

LiveKey == \E key \in Keys : Press(key)

\* The rest of a frame: update() finds `elapsed` ms gone, then the drawing.
Frame(elapsed) ==
    /\ LiveOn
    /\ \E perm \in FreeShuffles :
           LiveCommit(drawing(update(Self("update", elapsed), elapsed, perm)))
    /\ UNCHANGED <<running, pc, script, free>>

LiveFrame == \E elapsed \in ElapsedValues : Frame(elapsed)

\* A frame in which gravity acts, and the key that ends a pause.
Tick == \E elapsed \in ElapsedValues : elapsed > drop_speed /\ state = PLAYING /\ Frame(elapsed)
Resume == state = PAUSED /\ Press("K_p")

\* Where a tick is possible.  A tick in PLAYING always changes the state (the
\* piece is one row lower or it is locked: TickActs), so this is ENABLED <<Tick>>_vars.
TickEnabled == LiveOn /\ state = PLAYING

NextLive == FollowScript \/ LiveStart \/ LiveKey \/ LiveFrame

\* The frames of run() follow one another, so gravity ticks keep coming if the
\* game is playing again and again (strong fairness of Tick, written with its
\* enabling condition), and a pause is ended (weak fairness of Resume).
SpecLive ==
    /\ Init
    /\ [][NextLive]_vars
    /\ (<>[]~TickEnabled) \/ ([]<><<Tick>>_vars)
    /\ WF_vars(Resume)

----------------------------------------------------------------------------
\* The properties.  A step's history h holds what the methods called in the
\* step were given and returned.

EmptyRow == [x \in 1..GRID_WIDTH |-> 0]

IsFullRow(row) == \A x \in 1..GRID_WIDTH : row[x] # 0

FullRows(board) == {y \in 1..Len(board) : IsFullRow(board[y])}

\* The rows of a board that are not full, top to bottom.
KeptRows(board) == SelectSeq(board, LAMBDA row : ~IsFullRow(row))

\* C1: whenever clear_lines has run, the board it leaves has GRID_HEIGHT rows,
\* which are as many empty rows as the board it met had full rows, followed by
\* the rows of that board that were not full, in their order and unchanged, and
\* it returns the number of rows that were full.
C1_ClearLinesContract ==
    h.clear_called =>
        LET n == Cardinality(FullRows(h.clear_in))
            kept == KeptRows(h.clear_in)
        IN  /\ Len(h.clear_out) = GRID_HEIGHT
            /\ h.clear_ret = n
            /\ h.clear_out = [y \in 1..GRID_HEIGHT |-> IF y <= n THEN EmptyRow ELSE kept[y - n]]

\* C1: the part of the contract that the code keeps: the height and the
\* returned count.
C1_HeightAndCount ==
    h.clear_called =>
        /\ Len(h.clear_out) = GRID_HEIGHT
        /\ h.clear_ret = Cardinality(FullRows(h.clear_in))

\* C1: one full row is removed as the contract says.
C1_SingleRow ==
    (h.clear_called /\ Cardinality(FullRows(h.clear_in)) <= 1) => C1_ClearLinesContract

\* A step of the loop that takes an input (a key, a quit or a frame's update).
InputStep == script' # script \/ free' # free

\* The piece that move_piece(dx, dy, rotate) tries.
Target(piece, dx, dy, do_rotate) ==
    [piece EXCEPT !.shape = IF do_rotate THEN rotate(@) ELSE @,
                  !.x = @ + dx,
                  !.y = @ + dy]

\* What one arrow key asks of move_piece.
KeyMove(key) ==
    CASE key = "K_LEFT" -> [dx |-> -1, dy |-> 0, do_rotate |-> FALSE]
      [] key = "K_RIGHT" -> [dx |-> 1, dy |-> 0, do_rotate |-> FALSE]
      [] key = "K_DOWN" -> [dx |-> 0, dy |-> 1, do_rotate |-> FALSE]
      [] key = "K_UP" -> [dx |-> 0, dy |-> 0, do_rotate |-> TRUE]

\* C2: move_piece called in Playing for an arrow key: if the translated or
\* rotated piece is not a valid position it returns False and the piece, the
\* board, the score and every other field of the engine are as before the call
\* (an invalid rotation is rejected at its origin); if it is valid it returns
\* True, the piece has exactly the requested shape and origin and nothing else
\* changes, but for the point the handler adds for a soft drop.
C2_MovePiece ==
    [][(InputStep /\ state = PLAYING /\ h'.input \in {"K_LEFT", "K_RIGHT", "K_DOWN", "K_UP"}) =>
          LET m == KeyMove(h'.input)
              target == Target(current_piece, m.dx, m.dy, m.do_rotate)
          IN  /\ h'.move_called
              /\ IF _valid_position(target.x, target.y, target.shape, grid)
                 THEN /\ h'.move_ret
                      /\ current_piece' = target
                      /\ score' = IF h'.input = "K_DOWN" THEN score + 1 ELSE score
                      /\ UNCHANGED <<state, grid, locked_positions, next_pieces, lines_cleared,
                                     level, combo, hold_piece, can_hold, piece_bag, stats,
                                     total_pieces, drop_speed, high_scores, drawn>>
                 ELSE /\ ~h'.move_ret
                      /\ UNCHANGED <<fields, drawn>>]_vars

\* C2: a rotation was rejected (the piece is at a wall or on the stack), and a
\* translation was.
C2_Witness ==
    /\ state = PLAYING
    /\ h.input = "K_UP"
    /\ h.move_called
    /\ ~h.move_ret
    /\ rotate(current_piece.shape) # current_piece.shape

\* The occupied cells of a shape placed at an origin, as <<column, row>>.
PlacedCells(x, y, shape) ==
    {<<x + d[1] - 1, y + d[2] - 1>> :
        d \in {e \in (1..Len(shape[1])) \X (1..Len(shape)) : shape[e[2]][e[1]] # 0}}

\* C3: _valid_position(x, y, shape, grid) returns False exactly when an
\* occupied cell of the shape is at a column outside [0, GRID_WIDTH), at a row
\* >= GRID_HEIGHT, or on a non-empty cell of the board at a row >= 0, and True
\* otherwise: cells at rows < 0 are accepted whatever the board holds, and so
\* is every placement inside the bounds on empty cells.
C3_ValidPosition ==
    h.valid_called =>
        h.valid_ret =
            ~ \E c \in PlacedCells(h.valid_in.x, h.valid_in.y, h.valid_in.shape) :
                  \/ c[1] < 0
                  \/ c[1] >= GRID_WIDTH
                  \/ c[2] >= GRID_HEIGHT
                  \/ (c[2] >= 0 /\ grid[c[2] + 1][c[1] + 1] # 0)

\* C3: a placement inside the columns and above the floor, with a cell above
\* the board, is rejected for the contents of the board alone.
C3_Witness ==
    /\ h.valid_called
    /\ ~h.valid_ret
    /\ \A c \in PlacedCells(h.valid_in.x, h.valid_in.y, h.valid_in.shape) :
           c[1] >= 0 /\ c[1] < GRID_WIDTH /\ c[2] < GRID_HEIGHT
    /\ \E c \in PlacedCells(h.valid_in.x, h.valid_in.y, h.valid_in.shape) : c[2] < 0

\* C3: a placement with a cell above the board is accepted on a board whose
\* top row is not empty.
C3_AcceptedAbove ==
    /\ h.valid_called
    /\ h.valid_ret
    /\ \E c \in PlacedCells(h.valid_in.x, h.valid_in.y, h.valid_in.shape) : c[2] < 0
    /\ grid[1][1] # 0

\* A piece has a cell on a non-empty cell of the board.
Overlaps(piece, board) ==
    \E c \in PlacedCells(piece.x, piece.y, piece.shape) :
        /\ c[1] >= 0 /\ c[1] < GRID_WIDTH
        /\ c[2] >= 0 /\ c[2] < GRID_HEIGHT
        /\ board[c[2] + 1][c[1] + 1] # 0

\* C4, the spawn: when spawn_next_piece (after a lock, or for a hold into an
\* empty slot) has brought in a piece that overlaps the board at its spawn
\* position, the phase is GAME_OVER and the board is the one the spawn met.
C4_SpawnCollision ==
    (h.spawned /\ Overlaps(current_piece, h.spawn_grid)) =>
        (state = GAME_OVER /\ grid = h.spawn_grid)

\* C4, after it: in GAME_OVER no step but the restart key changes the board,
\* the falling piece, the score or the phase.
C4_FrozenStep ==
    (state = GAME_OVER /\ h'.input # "K_r") =>
        (state' = GAME_OVER /\ UNCHANGED <<grid, current_piece, score>>)

\* C4: a spawn onto occupied cells gives GAME_OVER without writing the piece
\* into the board, and from then until the restart no move, rotation, soft or
\* hard drop, hold or gravity tick changes the board, the piece or the score.
C4_GameOverOnSpawn == []C4_SpawnCollision /\ [][C4_FrozenStep]_vars

\* C4: the game ended on a spawn and a hard-drop key has since been ignored.
C4_Witness ==
    /\ state = GAME_OVER
    /\ Overlaps(current_piece, grid)
    /\ h.input = "K_SPACE"
    /\ ~h.locked

\* C4: the game ended on the spawn of a hold into the empty slot.
C4_HoldWitness ==
    /\ state = GAME_OVER
    /\ h.input = "K_c"
    /\ h.spawned
    /\ Overlaps(current_piece, h.spawn_grid)

\* C4: a gravity tick came due in GAME_OVER.
C4_TickWitness ==
    /\ state = GAME_OVER
    /\ h.input = "update"
    /\ h.elapsed > drop_speed
    /\ ~h.spawned

\* C5: calculate_score(n) with n = 0 sets combo to 0 and leaves score,
\* lines_cleared and level; with n in 1..4 it adds {1:100, 2:300, 3:500,
\* 4:800}[n] * level, plus 50 * combo * level where combo > 0, to the score
\* (level and combo as before the call), n to lines_cleared and 1 to combo.
C5_CalculateScore ==
    h.score_called =>
        LET before == h.score_in
            n == h.score_n
            table == [k \in 1..4 |-> CASE k = 1 -> 100 [] k = 2 -> 300 [] k = 3 -> 500 [] k = 4 -> 800]
        IN  IF n = 0
            THEN /\ combo = 0
                 /\ score = before.score
                 /\ lines_cleared = before.lines_cleared
                 /\ level = before.level
            ELSE /\ n \in 1..4
                 /\ score = before.score + table[n] * before.level
                               + (IF before.combo > 0 THEN 50 * before.combo * before.level ELSE 0)
                 /\ lines_cleared = before.lines_cleared + n
                 /\ combo = before.combo + 1

\* C5: the examples of the claim: at level 1 with combo 0 one line adds 100 and
\* four lines add 800, and with combo 1 the bonus is 50.
C5_Examples ==
    (h.score_called /\ h.score_in.level = 1) =>
        /\ (h.score_n = 1 /\ h.score_in.combo = 0) => score = h.score_in.score + 100
        /\ (h.score_n = 4 /\ h.score_in.combo = 0) => score = h.score_in.score + 800
        /\ (h.score_n = 1 /\ h.score_in.combo = 1) => score = h.score_in.score + 100 + 50

\* C5: four lines were scored above level 1 with a combo running.
C5_Witness ==
    /\ h.score_called
    /\ h.score_n = 4
    /\ h.score_in.level > 1
    /\ h.score_in.combo > 1

\* C5: a lock that cleared nothing ended a combo.
C5_ComboEnded ==
    /\ h.score_called
    /\ h.score_n = 0
    /\ h.score_in.combo > 0
    /\ combo = 0

\* A step that begins a game: StartGame from the menu or RestartGame.
NewGameStep == state \in {MENU, GAME_OVER} /\ state' = PLAYING

\* The drop interval of a level.
DropInterval(l) == IF 500 - (l - 1) * 50 > 50 THEN 500 - (l - 1) * 50 ELSE 50

\* C6, the level: level = floor(lines_cleared / 10) + 1.
C6_LevelOfLines == level = (lines_cleared \div 10) + 1

\* C6, the steps: the level does not decrease but where a game begins, and a
\* step whose lock raised the level leaves the drop interval of the new level.
C6_LevelStep ==
    /\ ~NewGameStep => level' >= level
    /\ (h'.locked /\ level' > level) => drop_speed' = DropInterval(level')

\* C6: in every state level = floor(lines_cleared / 10) + 1, the level never
\* decreases within a game, and right after a lock that raises the level
\* drop_speed is max(50, 500 - (level - 1) * 50) for the new level.
C6_Level == []C6_LevelOfLines /\ [][C6_LevelStep]_vars

\* C6: a lock has brought lines_cleared to 10 or more: level 2 with a drop
\* interval of 450.
C6_Witness ==
    /\ h.locked
    /\ h.score_in.level = 1
    /\ h.score_in.lines_cleared < 10
    /\ lines_cleared >= 10
    /\ level = 2
    /\ drop_speed = 450

\* C7: in every PLAYING state drop_speed, which update compares the elapsed
\* time with, is max(50, 500 - (level - 1) * 50) for the current level.
C7_DropSpeedOfLevel == state = PLAYING => drop_speed = DropInterval(level)

\* C7: what the code keeps: drop_speed is the interval of the highest level
\* reached since the object was constructed, so it is right until a restart.
C7_DropSpeedNeverReset ==
    [][/\ drop_speed' <= drop_speed
       /\ drop_speed' = drop_speed \/ drop_speed' = DropInterval(level')]_vars

\* C7: after RestartGame a tick with 475 elapsed moves the piece at level 1,
\* whose interval is 500.
C7_EarlyTick ==
    /\ state = PLAYING
    /\ level = 1
    /\ h.input = "update"
    /\ h.elapsed < DropInterval(level)
    /\ h.move_called

\* The k-th block of 7 of the draws since the last reset_game (k from 0), cut
\* short where the draws end.
Block(k) == SubSeq(drawn, 7 * k + 1, IF 7 * k + 7 <= Len(drawn) THEN 7 * k + 7 ELSE Len(drawn))

NoTypeTwice(block) == Cardinality(Range(block)) = Len(block)

\* C8: the types get_next_piece has returned since the last reset_game, cut
\* into blocks of 7 from the first draw: every complete block has each of the
\* 7 types exactly once and the incomplete last block has no type twice; and
\* the bag was empty whenever refill_bag replaced it.
C8_SevenBag ==
    /\ \A k \in 0..(Len(drawn) \div 7) :
           /\ NoTypeTwice(Block(k))
           /\ Len(Block(k)) = 7 => Range(Block(k)) = Range(PieceTypes)
    /\ h.refilled => h.refill_over = <<>>

\* C8: the draw that opens the third block has refilled the bag.
C8_Witness ==
    /\ Len(drawn) = 15
    /\ h.refilled
    /\ Len(piece_bag) = 6

\* The hold key pressed in PLAYING.
HoldStep == InputStep /\ state = PLAYING /\ h'.input = "K_c"

\* A hold with the hold slot empty: the slot gets the type of the falling
\* piece, the head of the queue falls, can_hold is False.
C9_Store ==
    (HoldStep /\ can_hold /\ hold_piece = None) =>
        /\ h'.hold = "stored"
        /\ hold_piece'.piece_type = current_piece.piece_type
        /\ current_piece' = Head(next_pieces)
        /\ ~can_hold'

\* A further hold changes nothing.
C9_Refused ==
    (HoldStep /\ ~can_hold) =>
        /\ h'.hold = "refused"
        /\ UNCHANGED <<fields, drawn>>

\* A lock's spawn makes can_hold True.
C9_LockAllows == (h'.locked /\ h'.spawned) => can_hold'

\* C9 as stated: a hold into the empty slot stores the type of the falling
\* piece, brings in the head of the queue and sets can_hold to False; a hold
\* while can_hold is False changes nothing; and can_hold goes from False to
\* True exactly on the steps in which a lock spawns a piece.
C9_HoldOncePerLock ==
    [][/\ C9_Store
       /\ C9_Refused
       /\ C9_LockAllows
       /\ (~can_hold /\ can_hold') => (h'.locked /\ h'.spawned)]_vars

\* C9: as above, but can_hold goes from False to True on the steps in which
\* a lock spawns a piece and on the steps that begin a game (reset_game), and
\* on no other.
C9_HoldOncePerPiece ==
    [][/\ C9_Store
       /\ C9_Refused
       /\ C9_LockAllows
       /\ NewGameStep => can_hold'
       /\ (~can_hold /\ can_hold') => ((h'.locked /\ h'.spawned) \/ NewGameStep)]_vars

\* C9: a second hold on the same piece was refused, the first having filled
\* the empty slot.
C9_Witness ==
    /\ state = PLAYING
    /\ h.input = "K_c"
    /\ h.hold = "refused"
    /\ hold_piece # None
    /\ ~can_hold

\* C9: a hold into the empty slot ended the game, which leaves can_hold False
\* for the restart to set.
C9_HoldEndedGame ==
    /\ state = GAME_OVER
    /\ h.hold = "stored"
    /\ ~can_hold

\* C10: a hold with the slot occupied and can_hold True: the falling piece
\* becomes the type of the slot in its base shape at x = GRID_WIDTH div 2 -
\* width div 2, y = 0, the slot gets the type that was falling, and the queue,
\* the bag, the board and the score stay.
C10_HoldSwap ==
    [][(HoldStep /\ can_hold /\ hold_piece # None) =>
          LET base == SHAPES[hold_piece.piece_type].shape
          IN  /\ h'.hold = "swapped"
              /\ current_piece'.piece_type = hold_piece.piece_type
              /\ current_piece'.shape = base
              /\ current_piece'.x = (GRID_WIDTH \div 2) - (Len(base[1]) \div 2)
              /\ current_piece'.y = 0
              /\ hold_piece'.piece_type = current_piece.piece_type
              /\ UNCHANGED <<next_pieces, piece_bag, grid, score>>]_vars

\* C10: a swap has brought a different type out of the slot.
C10_Witness ==
    /\ state = PLAYING
    /\ h.input = "K_c"
    /\ h.hold = "swapped"
    /\ hold_piece.piece_type # current_piece.piece_type
    /\ ~can_hold

\* The number of consecutive valid one-row descents of a piece on a board.
Descents(piece, board) ==
    CHOOSE n \in 0..GRID_HEIGHT :
        /\ \A k \in 1..n : _valid_position(piece.x, piece.y + k, piece.shape, board)
        /\ ~_valid_position(piece.x, piece.y + n + 1, piece.shape, board)

\* A board with the cells of a piece written into it.
BoardWithPiece(board, piece) ==
    [y \in 1..GRID_HEIGHT |->
        [x \in 1..GRID_WIDTH |->
            IF <<x - 1, y - 1>> \in PlacedCells(piece.x, piece.y, piece.shape)
            THEN piece.color
            ELSE board[y][x]]]

\* C11: hard_drop in PLAYING moves the piece down by N rows, N the number of
\* consecutive valid one-row descents, adds 2 * N to the score and locks the
\* piece there in the same step, its column and shape as they were: the board
\* clear_lines meets is the board with the piece written N rows lower, and the
\* score calculate_score meets is the score plus 2 * N.
C11_HardDrop ==
    [][(InputStep /\ state = PLAYING /\ h'.input = "K_SPACE") =>
          LET N == Descents(current_piece, grid)
          IN  /\ h'.dropped
              /\ h'.drop_distance = N
              /\ h'.locked
              /\ h'.clear_in = BoardWithPiece(grid, [current_piece EXCEPT !.y = @ + N])
              /\ h'.score_in.score = score + 2 * N
              /\ stats'[current_piece.piece_type] = stats[current_piece.piece_type] + 1]_vars

\* C11: a piece has been dropped by more than one row and locked where the
\* next descent was rejected.
C11_Witness ==
    /\ h.input = "K_SPACE"
    /\ h.dropped
    /\ h.locked
    /\ h.drop_distance > 1
    /\ h.move_called
    /\ ~h.move_ret
    /\ score >= 2 * h.drop_distance

\* C12: a soft drop in PLAYING moves the piece down one row and adds 1 to the
\* score when the row below is valid; when it is not, the score, the piece and
\* the board are as before and the step locks nothing.
C12_SoftDrop ==
    [][(InputStep /\ state = PLAYING /\ h'.input = "K_DOWN") =>
          IF _valid_position(current_piece.x, current_piece.y + 1, current_piece.shape, grid)
          THEN /\ current_piece' = [current_piece EXCEPT !.y = @ + 1]
               /\ score' = score + 1
               /\ grid' = grid
               /\ ~h'.locked
          ELSE /\ UNCHANGED <<score, current_piece, grid, locked_positions, next_pieces, stats>>
               /\ ~h'.locked
               /\ ~h'.spawned]_vars

\* C12: a soft drop was rejected with the piece resting on the floor or the
\* stack, and the piece is still falling.
C12_Witness ==
    /\ state = PLAYING
    /\ h.input = "K_DOWN"
    /\ h.move_called
    /\ ~h.move_ret
    /\ ~h.locked
    /\ ~_valid_position(current_piece.x, current_piece.y + 1, current_piece.shape, grid)

\* C12: a soft drop was accepted and paid its point.
C12_Accepted ==
    /\ state = PLAYING
    /\ h.input = "K_DOWN"
    /\ h.move_ret
    /\ current_piece.y > 0
    /\ score > 0

\* The phase changes of the claim, each with the input or the event that
\* makes it.
PhaseChange(from, to, by) ==
    \/ from = MENU /\ to = PLAYING /\ by.input = "K_SPACE"
    \/ from = PLAYING /\ to = PAUSED /\ by.input = "K_p"
    \/ from = PAUSED /\ to = PLAYING /\ by.input = "K_p"
    \/ from = PLAYING /\ to = GAME_OVER /\ by.spawned
    \/ from = GAME_OVER /\ to = PLAYING /\ by.input = "K_r"

\* C13: the phase changes only from MENU to PLAYING (the start key), PLAYING to
\* PAUSED and back (the pause key), PLAYING to GAME_OVER (in a step that
\* spawned a piece) and GAME_OVER to PLAYING (the restart key): none returns to
\* MENU, PAUSED never goes to GAME_OVER, and GAME_OVER is left only by the
\* restart, a quit leaving the phase as it is.
C13_PhaseChanges ==
    [][/\ state' # state => PhaseChange(state, state', h')
       /\ state' \in {MENU, PLAYING, PAUSED, GAME_OVER}
       /\ (~running' /\ running) => state' = state]_vars

\* C13: a game was restarted after its end, and paused.
C13_Witness ==
    /\ state = PAUSED
    /\ h.input = "K_p"
    /\ high_scores # <<>>

\* C13: the quit key ended the loop in GAME_OVER.
C13_QuitWitness ==
    /\ state = GAME_OVER
    /\ h.input = "K_q"
    /\ ~running

\* A step that is a direct call of an engine method.
DirectStep == h'.input \in {"move_piece", "hard_drop", "hold_current_piece", "direct update"} /\ InputStep

\* C14: move_piece, hard_drop, hold_current_piece and update called directly
\* in MENU, PAUSED or GAME_OVER leave the board, the falling piece, the hold
\* slot, can_hold, the queue, the bag, the score, the combo, the level and the
\* counters unchanged.
C14_DirectCallsNoOp ==
    [][(DirectStep /\ state \in {MENU, PAUSED, GAME_OVER}) =>
          UNCHANGED <<grid, current_piece, hold_piece, can_hold, next_pieces, piece_bag,
                      score, combo, level, stats>>]_vars

\* C14, the two methods that test the phase: move_piece and update called
\* directly outside PLAYING change nothing.
C14_MoveAndUpdateNoOp ==
    [][(DirectStep /\ h'.input \in {"move_piece", "direct update"}) =>
          UNCHANGED <<fields, drawn>>]_vars

\* C14: hard_drop called in PAUSED has locked the piece.
C14_LockedInPause ==
    /\ state = PAUSED
    /\ h.input = "hard_drop"
    /\ h.locked

\* C15: while the phase stays GAME_OVER the score of the game that ended is
\* appended to the high scores once, however many frames the loop runs: no
\* more than one save_high_score since the phase became GAME_OVER, and one
\* once a frame has been drawn.
C15_SavedOnce ==
    state = GAME_OVER =>
        /\ h.saves <= 1
        /\ h.input = "draw" => h.saves = 1

\* C15, what the loop does: every frame drawn in GAME_OVER calls
\* save_high_score, so the number of saves is the number of frames.
C15_SavedEveryFrame ==
    [][(h'.input = "draw" /\ pc = "draw" /\ state = GAME_OVER) =>
          /\ h'.saved
          /\ h'.saves = h.saves + 1
          /\ h'.save_in = high_scores]_vars

\* C15: the score of one game is in the list three times.
C15_Thrice ==
    /\ state = GAME_OVER
    /\ h.saves = 3
    /\ Len(high_scores) >= 3
    /\ \A i \in 1..3 : high_scores[i] = score

\* C16: after the step that begins a game, from MENU or from GAME_OVER, the
\* board is empty, score, lines_cleared and combo are 0, level is 1, the hold
\* slot is empty, can_hold is True, every counter of stats is 0, the falling
\* piece is a piece as constructed (base shape at the spawn origin) and the
\* queue holds 3 pieces.
C16_NewGame ==
    [][NewGameStep =>
          /\ grid' = [y \in 1..GRID_HEIGHT |-> EmptyRow]
          /\ locked_positions' = <<>>
          /\ score' = 0
          /\ lines_cleared' = 0
          /\ level' = 1
          /\ combo' = 0
          /\ hold_piece' = None
          /\ can_hold'
          /\ \A p \in Range(PieceTypes) : stats'[p] = 0
          /\ current_piece' # None
          /\ current_piece' = Tetrimino(current_piece'.piece_type)
          /\ Len(next_pieces') = 3
          /\ \A i \in 1..3 : next_pieces'[i] = Tetrimino(next_pieces'[i].piece_type)]_vars

\* C16: a game has begun by the restart key after a game that used the hold
\* slot, scored and cleared lines.
C16_Witness ==
    /\ state = PLAYING
    /\ h.input = "K_r"
    /\ high_scores # <<>>
    /\ high_scores[1] > 0
    /\ score = 0
    /\ hold_piece = None

\* The clockwise quarter turn of a shape of R rows and C columns: C rows and
\* R columns with turned[c][R - 1 - r] = shape[r][c], rows and columns from 0.
IsQuarterTurn(turned, shape) ==
    LET R == Len(shape)
        C == Len(shape[1])
    IN  /\ Len(turned) = C
        /\ \A c \in 0..(C - 1) :
               /\ Len(turned[c + 1]) = R
               /\ \A r \in 0..(R - 1) : turned[c + 1][(R - 1 - r) + 1] = shape[r + 1][c + 1]

\* C17: for every shape of the 7 types and their rotations rotate returns the
\* clockwise quarter turn and leaves the shape of the piece as it was, and the
\* fourth call in a row returns the shape the first call was made on.
C17_Rotate ==
    h.rotate_times > 0 =>
        /\ IsQuarterTurn(h.rotate_ret, h.rotate_in)
        /\ current_piece.shape \in Rotations(SHAPES[current_piece.piece_type].shape)
        /\ h.rotate_times = 1 => h.rotate_in = current_piece.shape
        /\ h.rotate_times = 4 => h.rotate_ret = current_piece.shape

\* C17: the fourth turn of a shape that is not square has come back to it.
C17_Witness ==
    /\ h.rotate_times = 4
    /\ h.rotate_ret = current_piece.shape
    /\ h.rotate_in # current_piece.shape
    /\ Len(current_piece.shape) # Len(current_piece.shape[1])

\* C18: after save_high_score the list has at most 10 entries, is in
\* descending order, and holds the score of the game whenever fewer than 10 of
\* the entries it had before the call were greater than that score.
C18_HighScores ==
    h.saved =>
        /\ Len(high_scores) <= 10
        /\ \A i \in 1..(Len(high_scores) - 1) : high_scores[i] >= high_scores[i + 1]
        /\ Cardinality({i \in DOMAIN h.save_in : h.save_in[i] > score}) < 10
               => \E i \in DOMAIN high_scores : high_scores[i] = score

\* C18: a list of more than 10 unsorted entries was saved, and the score,
\* below 10 of them, is not in the list.
C18_Witness ==
    /\ h.saved
    /\ Len(h.save_in) > 10
    /\ \E i \in 1..(Len(h.save_in) - 1) : h.save_in[i] < h.save_in[i + 1]
    /\ Len(high_scores) = 10
    /\ \A i \in DOMAIN high_scores : high_scores[i] # score

\* C18: a score has entered a full list and pushed the lowest entry out.
C18_Entered ==
    /\ h.saved
    /\ Len(h.save_in) = 10
    /\ h.save_in[10] < score
    /\ \E i \in DOMAIN high_scores : high_scores[i] = score
    /\ \A i \in DOMAIN high_scores : high_scores[i] # h.save_in[10]

\* C19: in every PLAYING or PAUSED state the falling piece is at a valid
\* position: its cells are inside the columns and the rows of the board and
\* on empty cells.
C19_PieceValid ==
    state \in {PLAYING, PAUSED} =>
        \A c \in PlacedCells(current_piece.x, current_piece.y, current_piece.shape) :
            /\ c[1] >= 0 /\ c[1] < GRID_WIDTH
            /\ c[2] >= 0 /\ c[2] < GRID_HEIGHT
            /\ grid[c[2] + 1][c[1] + 1] = 0

\* The number of non-empty cells of a board.
Occupied(board) ==
    Cardinality({c \in (1..GRID_WIDTH) \X (1..GRID_HEIGHT) : board[c[2]][c[1]] # 0})

\* C19, the consequence for lock_piece: a lock writes the four cells of the
\* piece into empty cells, so the board clear_lines meets has four more
\* non-empty cells than the board before the step.
C19_LockWritesEmptyCells ==
    [][h'.locked => Occupied(h'.clear_in) = Occupied(grid) + 4]_vars

\* C19, what the code keeps: a piece brought in by spawn_next_piece in a state
\* that stays PLAYING, and a piece after a move, is at a valid position; only
\* the swap of hold_current_piece is not tested.
C19_ValidButAfterSwap ==
    [][(state' \in {PLAYING, PAUSED} /\ h'.hold # "swapped"
          /\ _valid_position(current_piece.x, current_piece.y, current_piece.shape, grid)
          /\ state \in {PLAYING, PAUSED})
        => _valid_position(current_piece'.x, current_piece'.y, current_piece'.shape, grid')]_vars

\* C19: a swap has left a piece on occupied cells in PLAYING.
C19_SwappedOntoStack ==
    /\ state = PLAYING
    /\ h.hold = "swapped"
    /\ Overlaps(current_piece, grid)

\* C20: after every lock, and so in every state, no row of the board has all
\* its GRID_WIDTH cells non-empty.
C20_NoFullRow == FullRows(grid) = {}

\* C20, what the code keeps: a lock that meets at most one full row leaves
\* none.
C20_NoFullRowAfterOne ==
    (h.locked /\ Cardinality(FullRows(h.clear_in)) <= 1) => FullRows(h.clear_out) = {}

\* C20: a lock that met four full rows has left two of them on the board.
C20_TwoLeft ==
    /\ h.locked
    /\ h.clear_ret = 4
    /\ Cardinality(FullRows(grid)) = 2

\* C21: the count clear_lines returns for a lock is between 0 and 4, so that
\* calculate_score finds it in its table: a lock that cleared lines is never
\* paid a base score of 0.
C21_CountInTable ==
    /\ h.clear_called => h.clear_ret \in 0..4
    /\ (h.score_called /\ h.score_n > 0) => line_scores(h.score_n) > 0

\* C21, what the code keeps: a lock on a board without full rows clears at
\* most 4 rows, and calculate_score is passed the count clear_lines returned.
C21_AtMostFourOnCleanBoard ==
    [][(h'.locked /\ FullRows(grid) = {}) =>
           /\ h'.clear_ret \in 0..4
           /\ h'.score_called /\ h'.score_n = h'.clear_ret]_vars

\* C21: a lock has cleared five rows, and its score is the points of the hard
\* drop and the combo bonus alone.
C21_FiveRows ==
    /\ h.locked
    /\ h.clear_ret = 5
    /\ h.score_n = 5
    /\ score = h.score_in.score + 50 * h.score_in.combo * h.score_in.level

\* What a pause keeps: every field of the game but the phase.
Game == <<grid, locked_positions, current_piece, next_pieces, score, lines_cleared,
          level, combo, hold_piece, can_hold, piece_bag, stats, total_pieces,
          drop_speed, high_scores>>

\* C22: while the phase is PAUSED every key but K_p and every update() leave
\* the board, the falling piece, the hold slot, the next queue, the score, the
\* combo and the level as they are and the phase PAUSED; K_p in PLAYING and
\* K_p in PAUSED change the phase alone, so that the game resumes in the state
\* in which it was paused.
C22_PausedFrame ==
    [][/\ state = PAUSED =>
              /\ UNCHANGED Game
              /\ state' = IF h'.input = "K_p" THEN PLAYING ELSE PAUSED
       /\ (state = PLAYING /\ state' = PAUSED) => UNCHANGED Game]_vars

\* C22: update() has found more than the drop interval elapsed while PAUSED.
C22_Witness ==
    /\ state = PAUSED
    /\ h.input = "update"
    /\ h.elapsed > drop_speed

\* C22: a hard drop, a hold and a move were asked for while PAUSED.
C22_KeyWitness ==
    /\ state = PAUSED
    /\ h.input \in {"K_SPACE", "K_c", "K_LEFT", "K_RIGHT", "K_DOWN", "K_UP"}

\* C22: the game has been resumed.
C22_Resumed ==
    /\ state = PLAYING
    /\ h.input = "K_p"

\* The falling piece where the step locks it: where it is, or, after the
\* descents of a hard drop, drop_distance rows lower.
Landed == [current_piece EXCEPT !.y = @ + h'.drop_distance]

\* The effect of a lock that clears nothing: the cells of the piece are written
\* and the counter of its type goes up by one.
LockWritesPiece ==
    /\ grid' = BoardWithPiece(grid, Landed)
    /\ stats' = [stats EXCEPT ![current_piece.piece_type] = @ + 1]

\* C23: a lock whose piece completes no row (every row that is full once the
\* piece is written was full before) changes the board in the cells of the
\* piece alone, which then hold its colour, and adds 1 to the lock counter of
\* its type and of no other.
C23_LockFrame ==
    [][(h'.locked /\ FullRows(BoardWithPiece(grid, Landed)) \subseteq FullRows(grid))
           => LockWritesPiece]_vars

\* C23, what the code keeps: a lock after which clear_lines finds no full row
\* has that effect, and every lock counts its piece.
C23_LockFrameNoFullRow ==
    [][h'.locked =>
           /\ h'.clear_in = BoardWithPiece(grid, Landed)
           /\ stats' = [stats EXCEPT ![current_piece.piece_type] = @ + 1]
           /\ h'.clear_ret = 0 => LockWritesPiece]_vars

\* C23: a lock has cleared nothing and the game goes on.
C23_LockedNoClear ==
    /\ h.locked
    /\ h.clear_ret = 0
    /\ grid = h.clear_in
    /\ state = PLAYING

\* The last n values get_next_piece returned, oldest first.
LastDrawn(n) == SubSeq(drawn, Len(drawn) - n + 1, Len(drawn))

\* C24: the next queue holds exactly 3 pieces, fresh pieces of the 3 types
\* drawn last from the bag, in the order of the draws; a spawn makes the head
\* of the queue the falling piece and appends the one piece it draws to the
\* tail; a hold that swaps leaves the queue and the bag alone and draws nothing.
C24_QueueInDrawOrder ==
    /\ [](/\ Len(next_pieces) = 3
          /\ Len(drawn) >= 3
          /\ next_pieces = [i \in 1..3 |-> Tetrimino(LastDrawn(3)[i])])
    /\ [][/\ h'.spawned =>
                 /\ current_piece' = Head(next_pieces)
                 /\ Len(drawn') = Len(drawn) + 1
                 /\ SubSeq(drawn', 1, Len(drawn)) = drawn
                 /\ next_pieces' = Append(Tail(next_pieces), Tetrimino(drawn'[Len(drawn')]))
          /\ h'.hold = "swapped" =>
                 UNCHANGED <<next_pieces, piece_bag, drawn>>]_vars

\* C24: a spawn has drawn the first type of a new bag into the queue.
C24_Witness ==
    /\ h.spawned
    /\ h.refilled
    /\ Len(drawn) > 7
    /\ next_pieces[3].piece_type = drawn[Len(drawn)]
    /\ current_piece.piece_type = drawn[Len(drawn) - 3]

\* C24: a hold has swapped with the queue as it was.
C24_SwapWitness ==
    /\ h.hold = "swapped"
    /\ ~h.spawned
    /\ Len(next_pieces) = 3

\* C25: get_ghost_y, called by the drawing, leaves the piece and the board as
\* they are and returns the row g >= y with the shape valid at column x in
\* every row from y + 1 to g and not valid in row g + 1; a hard drop in the
\* state of that call locks the piece at row g.
C25_GhostRow ==
    /\ [](h.ghost_called =>
              LET p == current_piece
                  g == h.ghost_ret
              IN  /\ g >= p.y
                  /\ \A r \in (p.y + 1)..g : _valid_position(p.x, r, p.shape, grid)
                  /\ ~_valid_position(p.x, g + 1, p.shape, grid))
    /\ [][/\ h'.ghost_called => UNCHANGED <<current_piece, grid>>
          /\ (h.ghost_called /\ h'.dropped) =>
                 /\ h'.locked
                 /\ current_piece.y + h'.drop_distance = h.ghost_ret
                 /\ h'.clear_in =
                        BoardWithPiece(grid, [current_piece EXCEPT !.y = h.ghost_ret])]_vars

\* C25: the ghost row of a piece that is not at the top is more than one row
\* below it.
C25_Witness ==
    /\ h.ghost_called
    /\ current_piece.y > 0
    /\ h.ghost_ret > current_piece.y + 1

\* C25: the drawing gave a ghost row on a stack and the next input, a hard
\* drop, has locked the piece.
C25_DroppedOnGhost ==
    /\ h.dropped
    /\ h.locked
    /\ h.drop_distance \in 1..(GRID_HEIGHT - 4)
    /\ h.input = "K_SPACE"

\* C26: from every PLAYING state, whatever keys the player presses and however
\* often, if gravity ticks keep coming and no pause lasts forever then a piece
\* is locked or the game is over.
C26_PieceLocked ==
    (free = 1 /\ state = PLAYING) ~> (h.locked \/ state = GAME_OVER)

\* C26: wherever the player is at the keys in PLAYING, a gravity tick moves the
\* piece down one row or locks it.
TickActs ==
    TickEnabled =>
        \A elapsed \in {e \in ElapsedValues : e > drop_speed} : \A perm \in FreeShuffles :
            LET u == update(Self("update", elapsed), elapsed, perm)
            IN  \/ u.h.locked
                \/ u.current_piece = [current_piece EXCEPT !.y = @ + 1]

\* C26: a piece was locked after a hold had taken the falling piece back to
\* the top, with soft drops before it.
C26_Witness ==
    /\ free = 1
    /\ h.locked
    /\ script = 4
    /\ hold_piece # None
    /\ score > 0

\* locked_positions and the board say the same: no key twice, and (x, y) is a
\* key with colour c exactly when grid[y][x] = c and c is not 0.
Mirror ==
    /\ \A i, j \in 1..Len(locked_positions) :
           (locked_positions[i].x = locked_positions[j].x
            /\ locked_positions[i].y = locked_positions[j].y) => i = j
    /\ {<<e.x, e.y, e.color>> : e \in Range(locked_positions)} =
           {<<c[1] - 1, c[2] - 1, grid[c[2]][c[1]]>> :
               c \in {d \in (1..GRID_WIDTH) \X (1..GRID_HEIGHT) : grid[d[2]][d[1]] # 0}}

\* C27: after every lock_piece, locks that clear rows included,
\* locked_positions mirrors the board.
C27_LockedMirrorsGrid == h.locked => Mirror

\* C27, what the code keeps: the mirror holds in a game until its first lock
\* that clears a row.
C27_MirrorUntilFirstClear == lines_cleared = 0 => Mirror

\* C27: a lock has cleared one row, and the map still has a key in a cell the
\* board shows empty.
C27_StaleKey ==
    /\ h.locked
    /\ h.clear_ret = 1
    /\ \E e \in Range(locked_positions) : grid[e.y + 1][e.x + 1] = 0

====
